---- MODULE Spec2Model ----
(***************************************************************************)
(* A model of crates/runc/src/lib.rs: the synchronous Launcher             *)
(* (Client::launch), the concurrent facade (AsyncClient::launch and the    *)
(* I/O branch of AsyncClient::create) and the Process Monitor they run     *)
(* through (MONITOR.start / MONITOR.wait and its reaper).                  *)
(*                                                                         *)
(* The monitor's own module (crate::monitor) is not among the sources; its *)
(* start, wait, reaper and pid -> notify-sink table are modelled from      *)
(* spec sections 4.2 and 5.  Everything else is translated from lib.rs.    *)
(*                                                                         *)
(* Process ids are handed out by a counter: the model does not wrap the    *)
(* pid space, so a pid names one process for the whole run.                *)
(***************************************************************************)
EXTENDS Integers, Sequences, FiniteSets, TLC

VARIABLES
    procs,      \* the OS process table: a sequence indexed by process id
    table,      \* the reaper's process-id -> notify-sink table
    chan,       \* the one-shot channels, by channel id
    task,       \* the concurrent callers (one AsyncClient call each)
    sync,       \* the synchronous caller (one Client::launch)
    lookupFailed \* the reaper met a process id with no table entry

vars == <<procs, table, chan, task, sync, lookupFailed>>

(***************************************************************************)
(* Bounds                                                                  *)
(***************************************************************************)
\* number of concurrent AsyncClient calls
NumLaunch == 2

Tasks == 1..NumLaunch

\* the owner recorded for a child spawned by the synchronous Launcher
SyncOwner == 0

None == [kind |-> "None"]

(***************************************************************************)
(* std::process::ExitStatus                                                *)
(***************************************************************************)
Code(n) == [kind |-> "code", n |-> n]
Signal(n) == [kind |-> "signal", n |-> n]

\* ExitStatus::success(): exited with code 0
success(status) == status = Code(0)

Statuses == {Code(0), Code(1), Signal(9)}

(***************************************************************************)
(* Byte streams and String::from_utf8                                      *)
(***************************************************************************)
\* what every child writes to stdout in the concurrency specification: "a"
SmallStreams == {<<97>>}

\* 0x61 'a', 0x62 'b', 0xC3 0xA9 (U+00E9), a truncated 0xC3, a bare 0xFF;
\* the JSON texts null, null with a newline, and []
OutStreams ==
    {<<>>, <<97>>, <<195, 169>>, <<195>>,
     <<110, 117, 108, 108>>, <<110, 117, 108, 108, 10>>, <<91, 93>>}
ErrStreams == {<<>>, <<98>>, <<255>>}

\* String::from_utf8: the decoded characters, or ok = FALSE (the Err the
\* callers unwrap).  One- and two-byte forms; every other lead byte of the
\* streams above (a continuation byte, 0xFF) is invalid.
RECURSIVE from_utf8(_)
from_utf8(bytes) ==
    IF bytes = <<>> THEN [ok |-> TRUE, s |-> <<>>]
    ELSE LET b == Head(bytes) IN
         IF b < 128
         THEN LET r == from_utf8(Tail(bytes)) IN
              [ok |-> r.ok, s |-> IF r.ok THEN <<b>> \o r.s ELSE <<>>]
         ELSE IF /\ b >= 194 /\ b <= 223 /\ Len(bytes) >= 2
                 /\ bytes[2] >= 128 /\ bytes[2] <= 191
         THEN LET r == from_utf8(Tail(Tail(bytes))) IN
              [ok |-> r.ok,
               s |-> IF r.ok THEN <<(b - 192) * 64 + (bytes[2] - 128)>> \o r.s
                     ELSE <<>>]
         ELSE [ok |-> FALSE, s |-> <<>>]

\* String::as_bytes: the UTF-8 encoding of a string of characters < U+0800
RECURSIVE as_bytes(_)
as_bytes(s) ==
    IF s = <<>> THEN <<>>
    ELSE LET c == Head(s) IN
         (IF c < 128 THEN <<c>> ELSE <<192 + (c \div 64), 128 + (c % 64)>>)
         \o as_bytes(Tail(s))

(***************************************************************************)
(* Commands and children                                                   *)
(***************************************************************************)
\* Runc::command: std::process::Command::new with no stdio set; spawn()
\* then leaves all three streams inherited from the parent.
command == [stdout |-> "inherit", stderr |-> "inherit"]

\* Runc::command_async: stdout and stderr explicitly inherited.
command_async == [stdout |-> "inherit", stderr |-> "inherit"]

\* a command whose caller asked for pipes to the parent: AsyncClient::launch
\* is public and takes any tokio::process::Command
PipedCommand == [stdout |-> "piped", stderr |-> "piped"]

\* a command whose stdout and stderr an I/O attachment wired to descriptors
\* of its own
WiredCommand == [stdout |-> "fd", stderr |-> "fd"]

\* wait_with_output collects a stream only when it is a pipe to the parent
Captured(p) ==
    [status |-> p.status,
     stdout |-> IF p.cmd.stdout = "piped" THEN p.out ELSE <<>>,
     stderr |-> IF p.cmd.stderr = "piped" THEN p.err ELSE <<>>]

\* Command::spawn succeeded: a new child, named by the next process id;
\* out and err are the bytes it has written, status how it terminated.
\* History: reaps counts the OS-level waits that returned its status,
\* notices the Exit notices sent for it; rank is its place in the order of
\* terminations, kept only by the specification that checks delivery order
\* (0 elsewhere); early tells that a child of the monitor terminated before
\* its entry was in the table.
NewChild(owner, cmd) ==
    [owner |-> owner, cmd |-> cmd, st |-> "running", eof |-> FALSE,
     out |-> <<>>, err |-> <<>>, status |-> None,
     reaps |-> 0, notices |-> 0, rank |-> 0, early |-> FALSE]

Pids == 1..Len(procs)

(***************************************************************************)
(* Results of a call                                                       *)
(***************************************************************************)
Response(pid, status, output) ==
    [kind |-> "Response", pid |-> pid, status |-> status, output |-> output]

CommandFailed(status, stdout, stderr) ==
    [kind |-> "CommandFailed", status |-> status, stdout |-> stdout,
     stderr |-> stderr]

\* Ok(())
Unit == [kind |-> "Unit"]

\* Error::ProcessSpawnFailed, Error::InvalidCommand, Error::UnavailableIO
\* (each wraps an io::Error)
ProcessSpawnFailed == [kind |-> "ProcessSpawnFailed"]
InvalidCommand == [kind |-> "InvalidCommand"]
UnavailableIO == [kind |-> "UnavailableIO"]
\* Error::JsonDeserializationFailed (wraps a serde_json::Error)
JsonDeserializationFailed == [kind |-> "JsonDeserializationFailed"]
\* Error::Unimplemented(verb.to_string())
Unimplemented(verb) == [kind |-> "Unimplemented", verb |-> verb]

\* String::from_utf8(..).unwrap() / .expect(..) on bytes that are not UTF-8
Panic == [kind |-> "Panic"]

(***************************************************************************)
(* The verbs: arguments and decoding of the output                         *)
(***************************************************************************)
\* str::trim: leading and trailing whitespace removed (tab, newline,
\* carriage return, space)
Whitespace == {9, 10, 13, 32}

RECURSIVE trim_start(_)
trim_start(s) ==
    IF s # <<>> /\ Head(s) \in Whitespace THEN trim_start(Tail(s)) ELSE s

RECURSIVE trim_end(_)
trim_end(s) ==
    IF s # <<>> /\ s[Len(s)] \in Whitespace
    THEN trim_end(SubSeq(s, 1, Len(s) - 1)) ELSE s

trim(s) == trim_end(trim_start(s))

\* the texts "null" and "[]"
null == <<110, 117, 108, 108>>
EmptyArray == <<91, 93>>

\* the type each verb decodes its output into
ReturnType(facade, verb) ==
    IF verb = "list" THEN "Vec<Container>"
    ELSE IF verb = "ps" THEN "Vec<usize>"
    ELSE IF facade = "Client" THEN "Container" ELSE "Vec<usize>"

\* serde_json::from_str::<T>(text), whitespace around the value skipped.
\* Of the texts a child writes here only [] is a value of a sequence type;
\* null is JSON but neither a sequence nor a struct (invalid type), the
\* empty text ends before any value (EOF), and the others are not JSON.
from_str(type, text) ==
    IF trim(text) = EmptyArray /\ type \in {"Vec<Container>", "Vec<usize>"}
    THEN [ok |-> TRUE, value |-> <<>>]
    ELSE [ok |-> FALSE, value |-> None]

\* Ok(value) of a verb that decodes its output
Decoded(value) == [kind |-> "Decoded", value |-> value]

\* the verbs that return Ok(()) once launch returned Ok
UnitVerbs == {"pause", "resume", "update", "exec", "run"}

\* what the verb returns, given what launch returned: an error (or panic)
\* of launch leaves through `?`; list and ps trim the output and take the
\* text null for the empty list before decoding (lines 423-429, 647-653,
\* 672-677); state decodes the output as it is (478, 717)
VerbReturn(facade, verb, res) ==
    IF res.kind # "Response" THEN res
    ELSE IF verb \in {"list", "ps"}
    THEN LET output == trim(res.output) IN
         IF output = null THEN Decoded(<<>>)
         ELSE LET r == from_str(ReturnType(facade, verb), output) IN
              IF r.ok THEN Decoded(r.value) ELSE JsonDeserializationFailed
    ELSE IF verb = "state"
    THEN LET r == from_str(ReturnType(facade, verb), res.output) IN
         IF r.ok THEN Decoded(r.value) ELSE JsonDeserializationFailed
    ELSE IF verb \in UnitVerbs THEN Unit
    ELSE res

\* arguments in which resume names a verb of its own
VerbArgsResume(verb, id) ==
    IF verb = "list" THEN <<"list", "--format-json">>
    ELSE IF verb = "ps" THEN <<"ps", "--format-json", id>>
    ELSE IF verb = "state" THEN <<"state", id>>
    ELSE IF verb = "resume" THEN <<"resume", id>>
    ELSE <<"pause", id>>

\* the verb-specific arguments handed to Runc::command; resume passes
\* "pause" (lines 445 and 686)
VerbArgs(verb, id) ==
    IF verb = "list" THEN <<"list", "--format-json">>
    ELSE IF verb = "ps" THEN <<"ps", "--format-json", id>>
    ELSE IF verb = "state" THEN <<"state", id>>
    ELSE <<"pause", id>>

(***************************************************************************)
(* update: the resource spec written to a temporary file                   *)
(***************************************************************************)
\* container ids, resource specs (oci_spec::runtime::Linux, reduced to a
\* memory limit) and the names utils::temp_filename_in_runtime_dir hands out
Ids == {"c1", "c2"}
Resources == {[memory |-> 0], [memory |-> 1]}
TempNames == {"runc-process-a", "runc-process-b"}

\* serde_json::to_string(resources): the JSON text, as a sequence of tokens
to_string(res) == <<"{", "memory", ":", res.memory, "}">>

\* the other errors update returns before launch is called
FilenameFailed == [kind |-> "FilenameFailed"]
SpecFileCreationFailed == [kind |-> "SpecFileCreationFailed"]

\* what can go wrong before the launch: no file name, a spec that does not
\* serialize, a write that fails
WriteSteps == {"ok", "no_name", "not_serializable", "write_failed"}

\* a preparation that goes on although the write failed
SpecFileUnchecked(path, res, step) ==
    IF step = "no_name"
    THEN [ok |-> FALSE, error |-> FilenameFailed, file |-> None]
    ELSE IF step = "not_serializable"
    THEN [ok |-> FALSE, error |-> JsonDeserializationFailed, file |-> None]
    ELSE IF step = "write_failed"
    THEN [ok |-> TRUE, error |-> None, file |-> None]
    ELSE [ok |-> TRUE, error |-> None,
          file |-> [path |-> path, content |-> to_string(res)]]

\* lines 483-486 and 735-738: temp_filename_in_runtime_dir()?, then
\* serde_json::to_string(..)?, then std::fs::write(&filename, spec_json)?;
\* each error returns at once, and only after all three is the file there
SpecFile(path, res, step) ==
    IF step = "no_name"
    THEN [ok |-> FALSE, error |-> FilenameFailed, file |-> None]
    ELSE IF step = "not_serializable"
    THEN [ok |-> FALSE, error |-> JsonDeserializationFailed, file |-> None]
    ELSE IF step = "write_failed"
    THEN [ok |-> FALSE, error |-> SpecFileCreationFailed, file |-> None]
    ELSE [ok |-> TRUE, error |-> None,
          file |-> [path |-> path, content |-> to_string(res)]]

\* lines 487-492 and 739-744: the verb's arguments (Runc::command puts the
\* global flags before them)
UpdateArgs(path, id) == <<"update", "--resources", path, id>>

(***************************************************************************)
(* tokio::sync::oneshot                                                    *)
(***************************************************************************)
\* st: "none" (not created), "open", "sent" (value stored), "taken" (value
\* received), "closed" (sender dropped unsent), "rxdropped"
\* a channel whose receiver is not kept
LostChannel == [st |-> "rxdropped", val |-> None]

FreshChannel == [st |-> "open", val |-> None]

\* Sender::send consumes the sender; the value is stored unless the receiver
\* is gone, in which case it is handed back and discarded by the caller.
Send(c, v) ==
    IF c.st = "open" THEN [st |-> "sent", val |-> v] ELSE c

\* dropping a Sender that never sent
DropSender(c) ==
    IF c.st = "open" THEN [st |-> "closed", val |-> None] ELSE c

\* dropping the Receiver
DropReceiver(c) ==
    IF c.st \in {"open", "sent"} THEN [st |-> "rxdropped", val |-> None] ELSE c

(***************************************************************************)
(* AsyncClient::launch                                                     *)
(***************************************************************************)
\* a launch that reuses one channel for every call
NewChannelShared(l) == 1

\* oneshot::channel::<Exit>() of one call: a channel of its own
NewChannel(l) == l

\* const MONITOR: every use of a const item is a value of its own
MONITOR(l, site) == <<l, site>>

\* pc: "idle", "ready" (a verb has prepared its call of launch), "join",
\* "returned", "cancelled".  io is the state of the I/O attachment the
\* caller passed: "none", "given" (passed, untouched), "set", "closed".
IdleTask ==
    [pc |-> "idle", kind |-> "launch", verb |-> "launch",
     cmd |-> command_async,
     combined |-> TRUE, ch |-> 0, rx |-> 0,
     mon |-> [start |-> <<>>, wait |-> <<>>],
     start |-> "init", pid |-> 0, out |-> None,
     wait |-> "unpolled", polled |-> "never", exit |-> None,
     result |-> None, ret |-> None, io |-> "none",
     req |-> None, file |-> None, args |-> <<>>]

\* let (tx, rx) = channel(); let start = MONITOR.start(cmd, tx);
\* let wait = MONITOR.wait(rx);  -- both futures created, neither polled yet
LaunchBegin(l, cmd, combined) ==
    /\ task[l].pc \in {"idle", "ready"}
    /\ LET c == NewChannel(l) IN
       /\ chan' = [chan EXCEPT ![c] = FreshChannel]
       /\ task' = [task EXCEPT ![l] =
              [task[l] EXCEPT !.pc = "join", !.cmd = cmd,
                               !.combined = combined, !.ch = c, !.rx = c,
                               !.mon = [start |-> MONITOR(l, "start"),
                                        wait |-> MONITOR(l, "wait")]]]
    /\ UNCHANGED <<procs, table, sync, lookupFailed>>

\* a classification that names the monitor's most recent process instead
\* of the one of the Exit notice
AsyncLaunchResultLatestPid(out, exit, combined) ==
    LET stdout == from_utf8(out.stdout)
        stderr == from_utf8(out.stderr)
    IN  IF ~stdout.ok \/ ~stderr.ok THEN Panic
        ELSE IF success(out.status)
        THEN IF combined
             THEN Response(Len(procs), out.status, stdout.s \o stderr.s)
             ELSE Response(Len(procs), out.status, stdout.s)
        ELSE CommandFailed(out.status, stdout.s, stderr.s)

\* lines 530-555: decode both streams, then classify by the Output's status;
\* the pid is the one of the Exit notice
AsyncLaunchResult(out, exit, combined) ==
    LET stdout == from_utf8(out.stdout)
        stderr == from_utf8(out.stderr)
    IN  IF ~stdout.ok \/ ~stderr.ok THEN Panic
        ELSE IF success(out.status)
        THEN IF combined
             THEN Response(exit.pid, out.status, stdout.s \o stderr.s)
             ELSE Response(exit.pid, out.status, stdout.s)
        ELSE CommandFailed(out.status, stdout.s, stderr.s)

\* a join that waits for both futures before it reports a failure
JoinAll(t) ==
    t.start = "failed" /\ t.wait \in {"failed", "done"}

\* tokio::try_join!(start, wait): an Err as soon as either future fails,
\* the pair once both have resolved
JoinFailed(t) ==
    t.start = "failed" \/ t.wait = "failed"

JoinDone(t) == t.start = "done" /\ t.wait = "done"

\* lines 520-556: the join resolves and launch returns; the futures and
\* with them the receiver are dropped
LaunchReturn(l) ==
    /\ task[l].pc = "join"
    /\ task[l].kind = "launch"
    /\ JoinFailed(task[l]) \/ JoinDone(task[l])
    /\ LET result == IF JoinFailed(task[l]) THEN InvalidCommand
                     ELSE AsyncLaunchResult(task[l].out, task[l].exit,
                                            task[l].combined)
       IN  task' = [task EXCEPT ![l].pc = "returned",
                                ![l].result = result,
                                ![l].ret = VerbReturn("AsyncClient",
                                                      task[l].verb, result)]
    /\ chan' = [chan EXCEPT ![task[l].rx] = DropReceiver(@)]
    /\ UNCHANGED <<procs, table, sync, lookupFailed>>

\* a cancellation that also terminates the process of the call
LaunchCancelKills(l) ==
    /\ task[l].pc = "join"
    /\ task' = [task EXCEPT ![l].pc = "cancelled"]
    /\ chan' = [chan EXCEPT ![task[l].rx] =
                    DropReceiver(IF task[l].start = "init"
                                 THEN DropSender(@) ELSE @)]
    /\ procs' = IF task[l].pid # 0 /\ procs[task[l].pid].st = "running"
                THEN [procs EXCEPT ![task[l].pid].st = "exited",
                                   ![task[l].pid].eof = TRUE,
                                   ![task[l].pid].status = Signal(9)]
                ELSE procs
    /\ UNCHANGED <<table, sync, lookupFailed>>

\* The caller gives the call up before the join resolved (its timer fired
\* first): the future of the call is dropped, and with it the start and
\* wait futures and the receiver; a start that was never polled still
\* holds the sender.  Nothing is done to the process or to the table.
LaunchCancel(l) ==
    /\ task[l].pc = "join"
    /\ task' = [task EXCEPT ![l].pc = "cancelled"]
    /\ chan' = [chan EXCEPT ![task[l].rx] =
                    DropReceiver(IF task[l].start = "init"
                                 THEN DropSender(@) ELSE @)]
    /\ procs' = procs
    /\ UNCHANGED <<table, sync, lookupFailed>>

(***************************************************************************)
(* AsyncClient::create, the branch with an I/O attachment                  *)
(***************************************************************************)
\* an I/O attachment: set_tk either fails or wires the command's stdout and
\* stderr to the attachment's descriptors
Ios ==
    {[ok |-> FALSE, cmd |-> command_async],
     [ok |-> TRUE, cmd |-> WiredCommand]}

\* lines 576-582: build the command, wire the attachment, create the
\* channel and the two futures
CreateIoBegin(l, io) ==
    /\ task[l].pc = "idle"
    /\ IF io.ok
       THEN LET c == NewChannel(l) IN
            /\ chan' = [chan EXCEPT ![c] = FreshChannel]
            /\ task' = [task EXCEPT ![l] =
                   [IdleTask EXCEPT !.pc = "join", !.kind = "create_io",
                                    !.verb = "create",
                                    !.cmd = io.cmd, !.ch = c, !.rx = c,
                                    !.io = "set",
                                    !.mon = [start |-> MONITOR(l, "start"),
                                             wait |-> MONITOR(l, "wait")]]]
       ELSE /\ chan' = chan
            /\ task' = [task EXCEPT ![l] =
                   [IdleTask EXCEPT !.pc = "returned", !.kind = "create_io",
                                    !.verb = "create",
                                    !.result = UnavailableIO]]
    /\ UNCHANGED <<procs, table, sync, lookupFailed>>

\* lines 593-607: decode both streams, then classify; success is Ok(())
CreateIoResult(out) ==
    LET stdout == from_utf8(out.stdout)
        stderr == from_utf8(out.stderr)
    IN  IF ~stdout.ok \/ ~stderr.ok THEN Panic
        ELSE IF ~success(out.status)
        THEN CommandFailed(out.status, stdout.s, stderr.s)
        ELSE Unit

\* lines 583-607: the join resolves; an Err returns at once, otherwise the
\* attachment is released and the outcome classified
CreateIoReturn(l) ==
    /\ task[l].pc = "join"
    /\ task[l].kind = "create_io"
    /\ JoinFailed(task[l]) \/ JoinDone(task[l])
    /\ task' = [task EXCEPT ![l].pc = "returned",
                            ![l].io = IF JoinFailed(task[l]) THEN @ ELSE "closed",
                            ![l].result =
                                IF JoinFailed(task[l]) THEN InvalidCommand
                                ELSE CreateIoResult(task[l].out)]
    /\ chan' = [chan EXCEPT ![task[l].rx] = DropReceiver(@)]
    /\ UNCHANGED <<procs, table, sync, lookupFailed>>

(***************************************************************************)
(* AsyncClient::run                                                        *)
(***************************************************************************)
\* lines 692-704 with an I/O attachment in opts: the arguments are built
\* and launch is called on a fresh command; the attachment is not touched
AsyncRunIo(l) ==
    /\ task[l].pc = "idle"
    /\ task' = [task EXCEPT ![l].pc = "ready", ![l].verb = "run",
                            ![l].io = "given"]
    /\ UNCHANGED <<procs, table, chan, sync, lookupFailed>>

(***************************************************************************)
(* AsyncClient::checkpoint, events, exec, restore                          *)
(***************************************************************************)
AsyncUnimplementedVerbs == {"checkpoint", "events", "exec", "restore"}

\* the arguments of the call: none for checkpoint and restore, (_id,
\* _interval) for events, (_id, _opts with or without an attachment) for
\* exec
UnimplementedArgs(verb) ==
    IF verb = "events"
    THEN [id : Ids, interval : {0, 1}]
    ELSE IF verb = "exec"
    THEN [id : Ids, io : {"none", "given"}]
    ELSE {None}

\* an exec that emulates the verb by launching a command
AsyncExecEmulated(l, verb, arg) ==
    /\ task[l].pc = "idle"
    /\ IF verb = "exec"
       THEN task' = [task EXCEPT ![l].pc = "ready", ![l].verb = verb,
                                 ![l].req = arg]
       ELSE task' = [task EXCEPT ![l].pc = "returned", ![l].verb = verb,
                                 ![l].req = arg,
                                 ![l].result = Unimplemented(verb)]
    /\ UNCHANGED <<procs, table, chan, sync, lookupFailed>>

\* lines 558-560, 622-624, 627-629, 680-682: the body is the one
\* expression Err(Error::Unimplemented(..)); the arguments are not read
AsyncUnimplemented(l, verb, arg) ==
    /\ task[l].pc = "idle"
    /\ task' = [task EXCEPT ![l].pc = "returned", ![l].verb = verb,
                            ![l].req = arg,
                            ![l].result = Unimplemented(verb)]
    /\ UNCHANGED <<procs, table, chan, sync, lookupFailed>>

(***************************************************************************)
(* AsyncClient::list, ps, state, pause, resume                             *)
(***************************************************************************)
AsyncVerbs == {"list", "ps", "state", "pause", "resume"}

\* lines 645, 665-669, 715, 658, 686: the arguments are built and launch
\* is called on self.command(&args)
AsyncVerb(l, verb, id) ==
    /\ task[l].pc = "idle"
    /\ task' = [task EXCEPT ![l].pc = "ready", ![l].verb = verb,
                            ![l].req = IF verb = "list" THEN None
                                       ELSE [id |-> id],
                            ![l].args = VerbArgs(verb, id)]
    /\ UNCHANGED <<procs, table, chan, sync, lookupFailed>>

(***************************************************************************)
(* AsyncClient::update                                                     *)
(***************************************************************************)
\* lines 734-744: the spec file is prepared, then launch is called
UpdateWrite(l, id, path, res, step) ==
    /\ task[l].pc = "idle"
    /\ LET w == SpecFile(path, res, step) IN
       IF w.ok
       THEN task' = [task EXCEPT ![l].pc = "ready", ![l].verb = "update",
                                 ![l].req = [id |-> id, res |-> res],
                                 ![l].file = w.file,
                                 ![l].args = UpdateArgs(path, id)]
       ELSE task' = [task EXCEPT ![l].pc = "returned", ![l].verb = "update",
                                 ![l].req = [id |-> id, res |-> res],
                                 ![l].result = w.error]
    /\ UNCHANGED <<procs, table, chan, sync, lookupFailed>>

(***************************************************************************)
(* The Process Monitor (spec 4.2)                                          *)
(***************************************************************************)
Exit(pid, status) == [pid |-> pid, status |-> status]

\* a start that registers its sink whether or not the spawn succeeded
MonitorStartAlwaysRegisters(l, ok) ==
    /\ task[l].pc = "join"
    /\ task[l].start = "init"
    /\ table' = table @@ (Len(procs) + 1 :> task[l].ch)
    /\ IF ok
       THEN /\ procs' = Append(procs, NewChild(l, task[l].cmd))
            /\ task' = [task EXCEPT ![l].start = "running",
                                    ![l].pid = Len(procs) + 1]
            /\ chan' = chan
       ELSE /\ task' = [task EXCEPT ![l].start = "failed"]
            /\ chan' = [chan EXCEPT ![task[l].ch] = DropSender(@)]
            /\ UNCHANGED procs
    /\ UNCHANGED <<sync, lookupFailed>>

\* a start that registers its process in a table of its own making
MonitorStartReplaces(l, ok) ==
    /\ task[l].pc = "join"
    /\ task[l].start = "init"
    /\ IF ok
       THEN /\ procs' = Append(procs, NewChild(l, task[l].cmd))
            /\ table' = (Len(procs) + 1 :> task[l].ch)
            /\ task' = [task EXCEPT ![l].start = "running",
                                    ![l].pid = Len(procs) + 1]
            /\ chan' = chan
       ELSE /\ task' = [task EXCEPT ![l].start = "failed"]
            /\ chan' = [chan EXCEPT ![task[l].ch] = DropSender(@)]
            /\ UNCHANGED <<procs, table>>
    /\ UNCHANGED <<sync, lookupFailed>>

\* start, first poll: spawn the command; on success register the pid
\* against the notify sink, on failure fail at once (the sink is dropped)
MonitorStart(l, ok) ==
    /\ task[l].pc = "join"
    /\ task[l].start = "init"
    /\ IF ok
       THEN /\ procs' = Append(procs, NewChild(l, task[l].cmd))
            /\ table' = table @@ (Len(procs) + 1 :> task[l].ch)
            /\ task' = [task EXCEPT ![l].start = "running",
                                    ![l].pid = Len(procs) + 1]
            /\ chan' = chan
       ELSE /\ task' = [task EXCEPT ![l].start = "failed"]
            /\ chan' = [chan EXCEPT ![task[l].ch] = DropSender(@)]
            /\ UNCHANGED <<procs, table>>
    /\ UNCHANGED <<sync, lookupFailed>>

\* start in two steps, for the interleavings with a child that terminates
\* at once: the table is taken (access is serialized, spec 5) and the
\* command spawned; start is "spawned" while it holds the table
StartSpawn(l, ok) ==
    /\ task[l].pc = "join"
    /\ task[l].start = "init"
    /\ \A k \in Tasks : task[k].start # "spawned"
    /\ IF ok
       THEN /\ procs' = Append(procs, NewChild(l, task[l].cmd))
            /\ task' = [task EXCEPT ![l].start = "spawned",
                                    ![l].pid = Len(procs) + 1]
            /\ chan' = chan
       ELSE /\ task' = [task EXCEPT ![l].start = "failed"]
            /\ chan' = [chan EXCEPT ![task[l].ch] = DropSender(@)]
            /\ procs' = procs
    /\ UNCHANGED <<table, sync, lookupFailed>>

\* the pid is registered against the notify sink and the table released
StartInsert(l) ==
    /\ task[l].pc = "join"
    /\ task[l].start = "spawned"
    /\ table' = table @@ (task[l].pid :> task[l].ch)
    /\ task' = [task EXCEPT ![l].start = "running"]
    /\ UNCHANGED <<procs, chan, sync, lookupFailed>>

\* start's output future: resolves once the streams are closed and the
\* reaper has observed the exit status
MonitorOutput(l) ==
    /\ task[l].pc = "join"
    /\ task[l].start = "running"
    /\ procs[task[l].pid].eof
    /\ procs[task[l].pid].st = "reaped"
    /\ task' = [task EXCEPT ![l].start = "done",
                            ![l].out = Captured(procs[task[l].pid])]
    /\ UNCHANGED <<procs, table, chan, sync, lookupFailed>>

\* History: where the process of call l stood when wait was first polled
Stage(l) ==
    IF task[l].start = "init" THEN "before_start"
    ELSE IF task[l].start = "failed" THEN "spawn_failed"
    ELSE IF procs[task[l].pid].st = "reaped" THEN "after_reap"
    ELSE "after_spawn"

\* a wait that also rejects a notice for a process other than the one
\* started along with it
MonitorWaitChecked(l) ==
    /\ task[l].pc = "join"
    /\ task[l].wait \in {"unpolled", "pending"}
    /\ LET c == chan[task[l].rx]
           first == IF task[l].wait = "unpolled" THEN Stage(l)
                    ELSE task[l].polled
       IN
       \/ /\ c.st = "sent"
          /\ c.val.pid = task[l].pid
          /\ task' = [task EXCEPT ![l].wait = "done", ![l].exit = c.val,
                                  ![l].polled = first]
          /\ chan' = [chan EXCEPT ![task[l].rx] = [st |-> "taken", val |-> None]]
       \/ /\ \/ c.st \in {"closed", "taken"}
             \/ c.st = "sent" /\ c.val.pid # task[l].pid
          /\ task' = [task EXCEPT ![l].wait = "failed", ![l].polled = first]
          /\ chan' = chan
       \/ /\ c.st = "open"
          /\ task[l].wait = "unpolled"
          /\ task' = [task EXCEPT ![l].wait = "pending", ![l].polled = first]
          /\ chan' = chan
    /\ UNCHANGED <<procs, table, sync, lookupFailed>>

\* wait(rx): a poll of the receiver
MonitorWait(l) ==
    /\ task[l].pc = "join"
    /\ task[l].wait \in {"unpolled", "pending"}
    /\ LET c == chan[task[l].rx]
           first == IF task[l].wait = "unpolled" THEN Stage(l)
                    ELSE task[l].polled
       IN
       \/ /\ c.st = "sent"
          /\ task' = [task EXCEPT ![l].wait = "done", ![l].exit = c.val,
                                  ![l].polled = first]
          /\ chan' = [chan EXCEPT ![task[l].rx] = [st |-> "taken", val |-> None]]
       \/ /\ c.st \in {"closed", "taken"}
          /\ task' = [task EXCEPT ![l].wait = "failed", ![l].polled = first]
          /\ chan' = chan
       \/ /\ c.st = "open"
          /\ task[l].wait = "unpolled"
          /\ task' = [task EXCEPT ![l].wait = "pending", ![l].polled = first]
          /\ chan' = chan
    /\ UNCHANGED <<procs, table, sync, lookupFailed>>

\* a reaper that fulfils the sink and keeps its entry
ReaperKeepsEntry(pid) ==
    /\ pid \in Pids
    /\ procs[pid].owner # SyncOwner
    /\ procs[pid].st = "exited"
    /\ procs' = [procs EXCEPT ![pid].st = "reaped", ![pid].reaps = @ + 1,
                              ![pid].notices =
                                  IF pid \in DOMAIN table THEN @ + 1 ELSE @]
    /\ IF pid \in DOMAIN table
       THEN chan' = [chan EXCEPT ![table[pid]] =
                         Send(@, Exit(pid, procs[pid].status))]
       ELSE chan' = chan
    /\ UNCHANGED <<table, task, sync, lookupFailed>>

\* a reaper that takes a terminated child only once its waiter has polled
ReaperNeedsWaiter(pid) ==
    /\ pid \in Pids
    /\ procs[pid].owner # SyncOwner
    /\ procs[pid].st = "exited"
    /\ task[procs[pid].owner].wait # "unpolled"
    /\ procs' = [procs EXCEPT ![pid].st = "reaped", ![pid].reaps = @ + 1,
                              ![pid].notices =
                                  IF pid \in DOMAIN table THEN @ + 1 ELSE @]
    /\ IF pid \in DOMAIN table
       THEN /\ chan' = [chan EXCEPT ![table[pid]] =
                            Send(@, Exit(pid, procs[pid].status))]
            /\ table' = [p \in DOMAIN table \ {pid} |-> table[p]]
            /\ UNCHANGED lookupFailed
       ELSE /\ lookupFailed' = TRUE
            /\ UNCHANGED <<chan, table>>
    /\ UNCHANGED <<task, sync>>

\* a reaper that takes the terminated children strictly in the order in
\* which they terminated
ReaperInTerminationOrder(pid) ==
    /\ pid \in Pids
    /\ procs[pid].owner # SyncOwner
    /\ procs[pid].st = "exited"
    /\ \A p \in Pids : procs[p].st = "exited" => procs[pid].rank <= procs[p].rank
    /\ procs' = [procs EXCEPT ![pid].st = "reaped", ![pid].reaps = @ + 1,
                              ![pid].notices =
                                  IF pid \in DOMAIN table THEN @ + 1 ELSE @]
    /\ IF pid \in DOMAIN table
       THEN /\ chan' = [chan EXCEPT ![table[pid]] =
                            Send(@, Exit(pid, procs[pid].status))]
            /\ table' = [p \in DOMAIN table \ {pid} |-> table[p]]
            /\ UNCHANGED lookupFailed
       ELSE /\ lookupFailed' = TRUE
            /\ UNCHANGED <<chan, table>>
    /\ UNCHANGED <<task, sync>>

\* a reaper that serves the children in the order in which they were
\* started
ReaperInStartOrder(pid) ==
    /\ pid \in Pids
    /\ procs[pid].owner # SyncOwner
    /\ procs[pid].st = "exited"
    /\ \A p \in Pids : p < pid => procs[p].st = "reaped"
    /\ procs' = [procs EXCEPT ![pid].st = "reaped", ![pid].reaps = @ + 1,
                              ![pid].notices =
                                  IF pid \in DOMAIN table THEN @ + 1 ELSE @]
    /\ IF pid \in DOMAIN table
       THEN /\ chan' = [chan EXCEPT ![table[pid]] =
                            Send(@, Exit(pid, procs[pid].status))]
            /\ table' = [p \in DOMAIN table \ {pid} |-> table[p]]
            /\ UNCHANGED lookupFailed
       ELSE /\ lookupFailed' = TRUE
            /\ UNCHANGED <<chan, table>>
    /\ UNCHANGED <<task, sync>>

\* the reaper: the OS-level wait on a terminated child of the monitor, the
\* lookup of its notify sink, one send, and the removal of the entry
Reaper(pid) ==
    /\ pid \in Pids
    /\ procs[pid].owner # SyncOwner
    /\ procs[pid].st = "exited"
    /\ procs' = [procs EXCEPT ![pid].st = "reaped", ![pid].reaps = @ + 1,
                              ![pid].notices =
                                  IF pid \in DOMAIN table THEN @ + 1 ELSE @]
    /\ IF pid \in DOMAIN table
       THEN /\ chan' = [chan EXCEPT ![table[pid]] =
                            Send(@, Exit(pid, procs[pid].status))]
            /\ table' = [p \in DOMAIN table \ {pid} |-> table[p]]
            /\ UNCHANGED lookupFailed
       ELSE /\ lookupFailed' = TRUE
            /\ UNCHANGED <<chan, table>>
    /\ UNCHANGED <<task, sync>>

\* a reaper that looks a terminated child up while a start holds the table
ReaperUnserialized(pid) ==
    Reaper(pid)

\* the reaper's access to the table is serialized with start's: it takes a
\* terminated child once no start holds the table
SerializedReaper(pid) ==
    /\ \A l \in Tasks : task[l].start # "spawned"
    /\ Reaper(pid)

(***************************************************************************)
(* The children                                                            *)
(***************************************************************************)
\* a running child writes its output and closes both streams
ChildClose(pid, out, err) ==
    /\ pid \in Pids
    /\ procs[pid].st = "running"
    /\ ~procs[pid].eof
    /\ procs' = [procs EXCEPT ![pid].eof = TRUE, ![pid].out = out,
                              ![pid].err = err]
    /\ UNCHANGED <<table, chan, task, sync, lookupFailed>>

\* a child that has closed its streams terminates, by exit code or signal
ChildExitAt(pid, status, rank) ==
    /\ pid \in Pids
    /\ procs[pid].st = "running"
    /\ procs[pid].eof
    /\ procs' = [procs EXCEPT ![pid].st = "exited", ![pid].status = status,
                              ![pid].rank = rank,
                              ![pid].early = /\ procs[pid].owner # SyncOwner
                                             /\ pid \notin DOMAIN table]
    /\ UNCHANGED <<table, chan, task, sync, lookupFailed>>

ChildExit(pid, status) == ChildExitAt(pid, status, 0)

\* History: the place of the next termination in the order of terminations
TerminationRank ==
    1 + Cardinality({p \in Pids : procs[p].st \in {"exited", "reaped"}})

(***************************************************************************)
(* Client::launch (the synchronous Launcher)                               *)
(***************************************************************************)
\* pc: "idle", "ready" (a verb has prepared its call of launch),
\* "waiting", "returned"; result is what Client::launch returned, or the
\* error the verb returned before calling it; ret is what the verb returns
\* after launch
IdleSync ==
    [pc |-> "idle", verb |-> "launch", cmd |-> command, combined |-> TRUE,
     pid |-> 0, result |-> None, ret |-> None, spawns |-> 0, waits |-> 0,
     io |-> "none", req |-> None, file |-> None, args |-> <<>>]

\* Client::create (366-368), Client::exec (399-401), Client::run (461-465)
\* with an I/O attachment: io.set(&mut cmd), then launch.  create and exec
\* launch the command that was wired, run a fresh self.command(&args).
ClientIoSet(verb, io) ==
    /\ sync.pc = "idle"
    /\ IF io.ok
       THEN sync' = [sync EXCEPT !.pc = "ready", !.verb = verb, !.io = "set",
                                 !.cmd = IF verb = "run" THEN command
                                         ELSE io.cmd]
       ELSE sync' = [sync EXCEPT !.pc = "returned", !.verb = verb,
                                 !.result = UnavailableIO]
    /\ UNCHANGED <<procs, table, chan, task, lookupFailed>>

\* Client::list (421), state (476), pause (434), resume (445): the
\* arguments are built and launch is called on self.command(&args)
ClientVerbs == {"list", "state", "pause", "resume"}

ClientVerb(verb, id) ==
    /\ sync.pc = "idle"
    /\ sync' = [sync EXCEPT !.pc = "ready", !.verb = verb,
                            !.req = IF verb = "list" THEN None
                                    ELSE [id |-> id],
                            !.args = VerbArgs(verb, id)]
    /\ UNCHANGED <<procs, table, chan, task, lookupFailed>>

ClientUnimplementedVerbs == {"checkpoint", "restore"}

\* Client::checkpoint and Client::restore, lines 318-320 and 439-441
ClientUnimplemented(verb) ==
    /\ sync.pc = "idle"
    /\ sync' = [sync EXCEPT !.pc = "returned", !.verb = verb,
                            !.result = Unimplemented(verb)]
    /\ UNCHANGED <<procs, table, chan, task, lookupFailed>>

\* Client::update, lines 482-492: the spec file is prepared, then launch
\* is called
ClientUpdateWrite(id, path, res, step) ==
    /\ sync.pc = "idle"
    /\ LET w == SpecFile(path, res, step) IN
       IF w.ok
       THEN sync' = [sync EXCEPT !.pc = "ready", !.verb = "update",
                                 !.req = [id |-> id, res |-> res],
                                 !.file = w.file,
                                 !.args = UpdateArgs(path, id)]
       ELSE sync' = [sync EXCEPT !.pc = "returned", !.verb = "update",
                                 !.req = [id |-> id, res |-> res],
                                 !.result = w.error]
    /\ UNCHANGED <<procs, table, chan, task, lookupFailed>>

\* line 369: after self.launch(cmd, true)? returned Ok, Client::create
\* releases the attachment; Client::exec and Client::run never do
AfterLaunch(verb, io, result) ==
    IF verb = "create" /\ io = "set" /\ result.kind = "Response"
    THEN "closed" ELSE io

\* a classification that merges the streams whatever the caller asked for
ClientLaunchResultMerged(pid, result, combined) ==
    LET stdout == from_utf8(result.stdout)
        stderr == from_utf8(result.stderr)
    IN  IF ~stdout.ok \/ ~stderr.ok THEN Panic
        ELSE IF success(result.status)
        THEN Response(pid, result.status, stdout.s \o stderr.s)
        ELSE CommandFailed(result.status, stdout.s, stderr.s)

\* lines 326-349: decode both streams, then classify by the exit status
ClientLaunchResult(pid, result, combined) ==
    LET stdout == from_utf8(result.stdout)
        stderr == from_utf8(result.stderr)
    IN  IF ~stdout.ok \/ ~stderr.ok THEN Panic
        ELSE IF success(result.status)
        THEN IF combined
             THEN Response(pid, result.status, stdout.s \o stderr.s)
             ELSE Response(pid, result.status, stdout.s)
        ELSE CommandFailed(result.status, stdout.s, stderr.s)

\* a Launcher that tries a refused spawn a second time
ClientSpawnRetry(cmd, combined, ok) ==
    /\ sync.pc \in {"idle", "ready"}
    /\ IF ok
       THEN /\ procs' = Append(procs, NewChild(SyncOwner, cmd))
            /\ sync' = [sync EXCEPT !.pc = "waiting", !.cmd = cmd,
                                    !.combined = combined,
                                    !.pid = Len(procs) + 1,
                                    !.spawns = @ + 1]
       ELSE /\ procs' = procs
            /\ sync' = [sync EXCEPT !.pc = "returned", !.cmd = cmd,
                                    !.combined = combined,
                                    !.result = ProcessSpawnFailed,
                                    !.ret = ProcessSpawnFailed,
                                    !.spawns = @ + 2]
    /\ UNCHANGED <<table, chan, task, lookupFailed>>

\* lines 323-324: cmd.spawn().map_err(Error::ProcessSpawnFailed)?
ClientSpawn(cmd, combined, ok) ==
    /\ sync.pc \in {"idle", "ready"}
    /\ IF ok
       THEN /\ procs' = Append(procs, NewChild(SyncOwner, cmd))
            /\ sync' = [sync EXCEPT !.pc = "waiting", !.cmd = cmd,
                                    !.combined = combined,
                                    !.pid = Len(procs) + 1,
                                    !.spawns = @ + 1]
       ELSE /\ procs' = procs
            /\ sync' = [sync EXCEPT !.pc = "returned", !.cmd = cmd,
                                    !.combined = combined,
                                    !.result = ProcessSpawnFailed,
                                    !.ret = ProcessSpawnFailed,
                                    !.spawns = @ + 1]
    /\ UNCHANGED <<table, chan, task, lookupFailed>>

\* a Launcher that leaves the OS-level wait to somebody else
ClientWaitNoReap ==
    /\ sync.pc = "waiting"
    /\ procs[sync.pid].st = "reaped"
    /\ LET result == ClientLaunchResult(sync.pid, Captured(procs[sync.pid]),
                                        sync.combined)
       IN  sync' = [sync EXCEPT !.pc = "returned", !.waits = @ + 1,
                                !.result = result,
                                !.ret = VerbReturn("Client", sync.verb,
                                                   result),
                                !.io = AfterLaunch(sync.verb, @, result)]
    /\ UNCHANGED <<procs, table, chan, task, lookupFailed>>

\* lines 325-349: child.wait_with_output() returns once the child has
\* terminated and both streams are at end-of-stream; the Launcher itself
\* reaps its child
ClientWait ==
    /\ sync.pc = "waiting"
    /\ procs[sync.pid].st = "exited"
    /\ procs[sync.pid].eof
    /\ procs' = [procs EXCEPT ![sync.pid].st = "reaped",
                              ![sync.pid].reaps = @ + 1]
    /\ LET result == ClientLaunchResult(sync.pid, Captured(procs[sync.pid]),
                                        sync.combined)
       IN  sync' = [sync EXCEPT !.pc = "returned", !.waits = @ + 1,
                                !.result = result,
                                !.ret = VerbReturn("Client", sync.verb,
                                                   result),
                                !.io = AfterLaunch(sync.verb, @, result)]
    /\ UNCHANGED <<table, chan, task, lookupFailed>>

(***************************************************************************)
(* Specifications                                                          *)
(***************************************************************************)
Init ==
    /\ procs = <<>>
    /\ table = <<>>
    /\ chan = [c \in Tasks |-> [st |-> "none", val |-> None]]
    /\ task = [l \in Tasks |-> IdleTask]
    /\ sync = IdleSync
    /\ lookupFailed = FALSE

\* NumLaunch concurrent calls of AsyncClient::launch through the monitor
Next ==
    \/ \E l \in Tasks : LaunchBegin(l, command_async, TRUE)
    \/ \E l \in Tasks, ok \in BOOLEAN : MonitorStart(l, ok)
    \/ \E l \in Tasks : MonitorOutput(l)
    \/ \E l \in Tasks : MonitorWait(l)
    \/ \E l \in Tasks : LaunchReturn(l)
    \/ \E pid \in Pids : Reaper(pid)
    \/ \E pid \in Pids, out \in SmallStreams : ChildClose(pid, out, <<>>)
    \/ \E pid \in Pids, status \in Statuses : ChildExit(pid, status)

Spec == Init /\ [][Next]_vars

\* The runtime keeps polling the reaper and the futures of every call that
\* can make progress.  Nothing is assumed about the children: a process may
\* run for ever.
MonitorFairness ==
    /\ WF_vars(\E pid \in Pids : Reaper(pid))
    /\ WF_vars(\E l \in Tasks : MonitorOutput(l))
    /\ WF_vars(\E l \in Tasks : MonitorWait(l))

\* Commands started concurrently through the monitor: the start and wait
\* futures of each call up to the point where both have resolved
StartedNext ==
    \/ \E l \in Tasks : LaunchBegin(l, command_async, TRUE)
    \/ \E l \in Tasks : MonitorStart(l, TRUE)
    \/ \E l \in Tasks : MonitorOutput(l)
    \/ \E l \in Tasks : MonitorWait(l)
    \/ \E pid \in Pids : Reaper(pid)
    \/ \E pid \in Pids, out \in SmallStreams : ChildClose(pid, out, <<>>)
    \/ \E pid \in Pids : ChildExit(pid, Signal(9))

FairStartedSpec == Init /\ [][StartedNext]_vars /\ MonitorFairness

\* The concurrent launches of Spec with the order of terminations recorded
OrderNext ==
    \/ \E l \in Tasks : LaunchBegin(l, command_async, TRUE)
    \/ \E l \in Tasks, ok \in BOOLEAN : MonitorStart(l, ok)
    \/ \E l \in Tasks : MonitorOutput(l)
    \/ \E l \in Tasks : MonitorWait(l)
    \/ \E l \in Tasks : LaunchReturn(l)
    \/ \E pid \in Pids : Reaper(pid)
    \/ \E pid \in Pids, out \in SmallStreams : ChildClose(pid, out, <<>>)
    \/ \E pid \in Pids : ChildExitAt(pid, Code(0), TerminationRank)

OrderSpec == Init /\ [][OrderNext]_vars

\* Concurrent launches with start in its two steps: a child may close its
\* streams and terminate between the spawn and the insert
SplitStartNext ==
    \/ \E l \in Tasks : LaunchBegin(l, command_async, TRUE)
    \/ \E l \in Tasks, ok \in BOOLEAN : StartSpawn(l, ok)
    \/ \E l \in Tasks : StartInsert(l)
    \/ \E l \in Tasks : MonitorWait(l)
    \/ \E pid \in Pids : SerializedReaper(pid)
    \/ \E pid \in Pids, out \in SmallStreams : ChildClose(pid, out, <<>>)
    \/ \E pid \in Pids : ChildExit(pid, Signal(9))

SplitStartSpec == Init /\ [][SplitStartNext]_vars

\* Callers that pair each start with the wrong receiver: all channels are
\* created first, then call l runs start with its own sender and wait with
\* the receiver of the next call's channel.
Partner(l) == (l % NumLaunch) + 1

WrongSinkBegin(l) ==
    /\ task[l].pc = "idle"
    /\ task' = [task EXCEPT ![l] =
           [IdleTask EXCEPT !.pc = "join", !.ch = NewChannel(l),
                            !.rx = NewChannel(Partner(l)),
                            !.mon = [start |-> MONITOR(l, "start"),
                                     wait |-> MONITOR(l, "wait")]]]
    /\ UNCHANGED <<procs, table, chan, sync, lookupFailed>>

MisuseInit ==
    /\ procs = <<>>
    /\ table = <<>>
    /\ chan = [c \in Tasks |-> FreshChannel]
    /\ task = [l \in Tasks |-> IdleTask]
    /\ sync = IdleSync
    /\ lookupFailed = FALSE

MisuseNext ==
    \/ \E l \in Tasks : WrongSinkBegin(l)
    \/ \E l \in Tasks, ok \in BOOLEAN : MonitorStart(l, ok)
    \/ \E l \in Tasks : MonitorOutput(l)
    \/ \E l \in Tasks : MonitorWait(l)
    \/ \E l \in Tasks : LaunchReturn(l)
    \/ \E pid \in Pids : Reaper(pid)
    \/ \E pid \in Pids, out \in SmallStreams : ChildClose(pid, out, <<>>)
    \/ \E pid \in Pids, status \in Statuses : ChildExit(pid, status)

MisuseSpec == MisuseInit /\ [][MisuseNext]_vars

\* One call at a time, with every kind of command and of child output:
\* AsyncClient::launch, AsyncClient::create with an attachment, and
\* Client::launch.
Caller == 1

FacadeNext ==
    \/ \E cmd \in {command_async, PipedCommand}, combined \in BOOLEAN :
           /\ sync.pc = "idle" /\ task[Caller].pc = "idle"
           /\ LaunchBegin(Caller, cmd, combined)
    \/ \E io \in Ios : sync.pc = "idle" /\ CreateIoBegin(Caller, io)
    \/ sync.pc = "idle" /\ AsyncRunIo(Caller)
    \/ \E verb \in AsyncVerbs, id \in Ids :
           sync.pc = "idle" /\ AsyncVerb(Caller, verb, id)
    \/ \E verb \in AsyncUnimplementedVerbs :
           \E arg \in UnimplementedArgs(verb) :
               sync.pc = "idle" /\ AsyncUnimplemented(Caller, verb, arg)
    \/ \E id \in Ids, path \in TempNames, res \in Resources,
          step \in WriteSteps :
           sync.pc = "idle" /\ UpdateWrite(Caller, id, path, res, step)
    \/ task[Caller].pc = "ready" /\ LaunchBegin(Caller, command_async, TRUE)
    \/ \E ok \in BOOLEAN : MonitorStart(Caller, ok)
    \/ MonitorOutput(Caller)
    \/ MonitorWait(Caller)
    \/ LaunchReturn(Caller)
    \/ CreateIoReturn(Caller)
    \/ \E pid \in Pids : Reaper(pid)
    \/ \E pid \in Pids, out \in OutStreams, err \in ErrStreams :
           ChildClose(pid, out, err)
    \/ \E pid \in Pids, status \in Statuses : ChildExit(pid, status)
    \/ \E cmd \in {command}, combined \in BOOLEAN, ok \in BOOLEAN :
           /\ task[Caller].pc = "idle" /\ sync.pc = "idle"
           /\ ClientSpawn(cmd, combined, ok)
    \/ \E verb \in {"create", "exec", "run"}, io \in Ios :
           task[Caller].pc = "idle" /\ ClientIoSet(verb, io)
    \/ \E verb \in ClientVerbs, id \in Ids :
           task[Caller].pc = "idle" /\ ClientVerb(verb, id)
    \/ \E verb \in ClientUnimplementedVerbs :
           task[Caller].pc = "idle" /\ ClientUnimplemented(verb)
    \/ \E id \in Ids, path \in TempNames, res \in Resources,
          step \in WriteSteps :
           task[Caller].pc = "idle" /\ ClientUpdateWrite(id, path, res, step)
    \/ \E ok \in BOOLEAN : sync.pc = "ready" /\ ClientSpawn(sync.cmd, TRUE, ok)
    \/ ClientWait

FacadeSpec == Init /\ [][FacadeNext]_vars

\* The tokio runtime keeps polling the reaper and a call's futures once they
\* can make progress, and a blocked wait_with_output returns once the child
\* is gone.  Nothing is assumed about the children.
FacadeFairness ==
    /\ WF_vars(\E pid \in Pids : Reaper(pid))
    /\ WF_vars(MonitorOutput(Caller))
    /\ WF_vars(MonitorWait(Caller))
    /\ WF_vars(LaunchReturn(Caller))
    /\ WF_vars(CreateIoReturn(Caller))
    /\ WF_vars(ClientWait)

FairFacadeSpec == FacadeSpec /\ FacadeFairness

\* Only the reaper is scheduled fairly: a caller may leave its futures
\* unpolled for ever.
ReaperFairSpec == FacadeSpec /\ WF_vars(\E pid \in Pids : Reaper(pid))

\* The calls of FacadeSpec, any of which the caller may give up
CancelNext ==
    \/ FacadeNext
    \/ LaunchCancel(Caller)

CancelSpec == Init /\ [][CancelNext]_vars

\* One call of Client::launch and one of AsyncClient::launch side by side,
\* on commands and children of every kind, so that their results can be
\* compared for equal behaviour
PairOut == {<<>>, <<97>>, <<195>>}
PairErr == {<<>>, <<98>>}

PairNext ==
    \/ \E cmd \in {command_async, PipedCommand}, combined \in BOOLEAN :
           task[Caller].pc = "idle" /\ LaunchBegin(Caller, cmd, combined)
    \/ \E ok \in BOOLEAN : MonitorStart(Caller, ok)
    \/ MonitorOutput(Caller)
    \/ MonitorWait(Caller)
    \/ LaunchReturn(Caller)
    \/ \E pid \in Pids : Reaper(pid)
    \/ \E pid \in Pids, out \in PairOut, err \in PairErr :
           ChildClose(pid, out, err)
    \/ \E pid \in Pids, status \in Statuses : ChildExit(pid, status)
    \/ \E cmd \in {command, PipedCommand}, combined \in BOOLEAN,
          ok \in BOOLEAN :
           sync.pc = "idle" /\ ClientSpawn(cmd, combined, ok)
    \/ ClientWait

PairSpec == Init /\ [][PairNext]_vars

(***************************************************************************)
(* Properties                                                              *)
(***************************************************************************)
\* the calls whose process was spawned
Spawned == {l \in Tasks : task[l].pid # 0}

\* the Completion Record of process pid as the monitor hands it out: the
\* Exit notice and the Output
NoticeOf(pid) == Exit(pid, procs[pid].status)

\* C1: exactly-once delivery.  Whenever a wait future has resolved, its
\* waiter holds the notice of the process started with its own sink; two
\* waiters never hold the same process id; no process has more than one
\* notice sent; and a call that has returned after a successful spawn holds
\* both halves of its own process's record (none is left without one).
C1_ExactlyOnce ==
    /\ \A l \in Tasks : task[l].wait = "done" =>
           /\ task[l].pid # 0
           /\ procs[task[l].pid].owner = l
           /\ task[l].exit = NoticeOf(task[l].pid)
    /\ \A l1, l2 \in Tasks :
           (l1 # l2 /\ task[l1].wait = "done" /\ task[l2].wait = "done")
               => task[l1].exit.pid # task[l2].exit.pid
    /\ \A pid \in Pids : procs[pid].notices <= 1
    /\ \A l \in Spawned : task[l].pc = "returned" =>
           /\ task[l].wait = "done"
           /\ task[l].start = "done"
           /\ task[l].out = Captured(procs[task[l].pid])
           /\ procs[task[l].pid].notices = 1

\* C1 witness: all calls spawned and returned, every wait resolved, and the
\* process started last was reaped and delivered first
C1_Witness ==
    /\ \A l \in Tasks : task[l].pc = "returned" /\ task[l].wait = "done"
    /\ task[1].pid > task[NumLaunch].pid
    /\ procs[task[1].pid].status # procs[task[NumLaunch].pid].status

\* the Completion Record of process pid has been produced: by the Launcher
\* (wait_with_output returned) or by the monitor (notice sent, Output resolved)
RecordProduced(pid) ==
    /\ pid \in Pids
    /\ procs[pid].reaps = 1
    /\ IF procs[pid].owner = SyncOwner
       THEN sync.pc = "returned" /\ sync.waits = 1
       ELSE /\ procs[pid].notices = 1
            /\ task[procs[pid].owner].start = "done"
            /\ task[procs[pid].owner].out = Captured(procs[pid])

\* C2: once a spawned process has terminated its Completion Record is
\* eventually produced (the reaper and the callers being scheduled fairly),
\* and no process is ever reaped or notified a second time.
C2_RecordOnce ==
    /\ \A pid \in Tasks :
           (pid \in Pids /\ procs[pid].st = "exited") ~> RecordProduced(pid)
    /\ [](\A pid \in Pids : procs[pid].reaps <= 1 /\ procs[pid].notices <= 1)
    /\ [](sync.waits <= 1)

\* C2 witness: the record of a terminated child of the monitor is there
C2_Witness ==
    /\ RecordProduced(1)
    /\ procs[1].owner = Caller
    /\ procs[1].status = Signal(9)

\* a call that returned after its process terminated, with that process
SyncDone == sync.pc = "returned" /\ sync.pid # 0
AsyncDone(l) == task[l].pc = "returned" /\ task[l].pid # 0

\* the result is the command-failed error carrying exactly the status and
\* the captured streams of process p
IsCommandFailedOf(result, p) ==
    /\ result.kind = "CommandFailed"
    /\ result.status = p.status
    /\ as_bytes(result.stdout) = Captured(p).stdout
    /\ as_bytes(result.stderr) = Captured(p).stderr

\* C3: a call (Client::launch, AsyncClient::launch, the I/O branch of
\* AsyncClient::create) whose process ended with a non-zero code or by a
\* signal returns the command-failed error with exactly the child's status
\* and the captured streams, never a success.
C3_NonZeroIsCommandFailed ==
    /\ (SyncDone /\ ~success(procs[sync.pid].status))
           => IsCommandFailedOf(sync.result, procs[sync.pid])
    /\ \A l \in Tasks :
           (AsyncDone(l) /\ ~success(procs[task[l].pid].status))
               => IsCommandFailedOf(task[l].result, procs[task[l].pid])

\* the bytes the child wrote that the caller asked for
Written(p, combined) == IF combined THEN p.out \o p.err ELSE p.out

\* the result is the success Response of process pid with the output the
\* child wrote
IsResponseOf(result, pid, combined) ==
    /\ result.kind = "Response"
    /\ result.pid = pid
    /\ result.status = Code(0)
    /\ as_bytes(result.output) = Written(procs[pid], combined)

\* C4: a launch whose process exited with status 0 returns a Response with
\* the pid of the spawned process, status 0 and exactly the bytes the child
\* wrote, in the synchronous and in the concurrent style.
C4_ZeroIsResponseWithOutput ==
    /\ (SyncDone /\ success(procs[sync.pid].status))
           => IsResponseOf(sync.result, sync.pid, sync.combined)
    /\ \A l \in Tasks :
           (AsyncDone(l) /\ task[l].kind = "launch"
                /\ success(procs[task[l].pid].status))
               => IsResponseOf(task[l].result, task[l].pid, task[l].combined)

\* C5: the notice is not lost whatever the order of exit and waiter
\* registration.  A resolved wait holds its own process's {pid, status},
\* wherever the process stood when the wait was first polled; a wait fails
\* only when the spawn failed; and while a call is still waiting, the
\* notice of its process is either still to come (the sink is registered
\* and open) or is stored in the channel for it.
C5_NoLostNotice ==
    \A l \in Tasks :
        /\ task[l].wait = "done" =>
               /\ task[l].pid # 0
               /\ task[l].exit = NoticeOf(task[l].pid)
        /\ task[l].wait = "failed" => task[l].start = "failed"
        /\ (task[l].pid # 0 /\ task[l].wait \in {"unpolled", "pending"}) =>
               IF procs[task[l].pid].st = "reaped"
               THEN chan[task[l].ch] =
                        [st |-> "sent", val |-> NoticeOf(task[l].pid)]
               ELSE /\ chan[task[l].ch].st = "open"
                    /\ task[l].pid \in DOMAIN table
                    /\ table[task[l].pid] = task[l].ch

\* C5 witness: one wait resolved that was first polled before start was
\* polled, another that was first polled after its process had been reaped
C5_Witness ==
    /\ task[1].wait = "done" /\ task[1].polled = "before_start"
    /\ task[NumLaunch].wait = "done" /\ task[NumLaunch].polled = "after_reap"

\* the calls that created their futures
Begun == {l \in Tasks : task[l].ch # 0}

\* C6: one shared monitor and one reaper.  The start and the wait of a call
\* run on the same monitor, every call uses that same monitor, and no
\* process has its status taken by more than one OS-level wait.
C6_OneSharedMonitor ==
    /\ \A l \in Begun : task[l].mon.start = task[l].mon.wait
    /\ \A l1, l2 \in Begun : task[l1].mon.start = task[l2].mon.start
    /\ \A pid \in Pids : procs[pid].reaps <= 1

\* the children of the monitor
Monitored == {pid \in Pids : procs[pid].owner # SyncOwner}

\* C7: once every started process has exited and been reaped the table is
\* empty, awaited or not.
C7_TableEmptyAfterReap ==
    (\A pid \in Monitored : procs[pid].st = "reaped") => DOMAIN table = {}

\* C7 witness: every call started a process, all are reaped, the table is
\* empty, and no wait future was ever polled
C7_Witness ==
    /\ Cardinality(Monitored) = NumLaunch
    /\ \A pid \in Monitored : procs[pid].st = "reaped"
    /\ \A l \in Tasks : task[l].wait = "unpolled"

\* a failed start left no trace: no process, no entry for its sink
NoTraceOf(l) ==
    /\ task[l].pid = 0
    /\ \A pid \in DOMAIN table : table[pid] # task[l].ch
    /\ \A pid \in Pids : procs[pid].owner # l

\* C8: a start whose spawn the OS refuses fails at once (straight from its
\* first poll), leaves the table and the process table exactly as they
\* were, and never has an entry.
C8_SpawnFailureLeavesTable ==
    /\ [][\A l \in Tasks :
            task'[l].start = "failed" =>
                \/ task[l].start = "failed"
                \/ /\ task[l].start = "init"
                   /\ table' = table
                   /\ procs' = procs]_vars
    /\ [](\A l \in Tasks : task[l].start = "failed" => NoTraceOf(l))

\* C8 witness: a start has failed while another call's entry is in the table
C8_Witness ==
    /\ task[1].start = "failed"
    /\ DOMAIN table # {}

\* C9: when the OS refuses the spawn the Launcher returns the
\* process-could-not-be-spawned error after exactly one attempt, without
\* waiting on or owning any child; and it returns that error in no other
\* case.
C9_SyncSpawnRefused ==
    /\ sync.spawns <= 1
    /\ (sync.pc = "returned" /\ sync.pid = 0 /\ sync.spawns = 1) =>
           /\ sync.result = ProcessSpawnFailed
           /\ sync.waits = 0
           /\ \A pid \in Pids : procs[pid].owner # SyncOwner
    /\ sync.result.kind = "ProcessSpawnFailed" =>
           sync.pc = "returned" /\ sync.pid = 0 /\ sync.spawns = 1
    /\ sync.result.kind \in {"CommandFailed", "Response", "Panic"} =>
           sync.pid # 0 /\ sync.waits = 1

\* C9 witness: the Launcher has returned from a refused spawn
C9_Witness ==
    /\ sync.pc = "returned"
    /\ sync.pid = 0
    /\ sync.spawns = 1
    /\ sync.cmd = WiredCommand

\* the call waits on a sink other than the one it gave to start
WrongSink(l) == task[l].pc # "idle" /\ task[l].rx # task[l].ch

C11_UnawaitedIsReaped ==
    /\ \A pid \in Tasks :
           (pid \in Pids /\ procs[pid].owner # SyncOwner
                /\ procs[pid].st = "exited")
               ~> (/\ pid \in Pids
                   /\ procs[pid].st = "reaped"
                   /\ pid \notin DOMAIN table)
    /\ [](\A l \in Tasks :
              (/\ task[l].pid # 0
               /\ task[l].wait = "unpolled"
               /\ procs[task[l].pid].st = "reaped") =>
                  /\ task[l].pid \notin DOMAIN table
                  /\ \A pid \in DOMAIN table : table[pid] # task[l].ch
                  /\ chan[task[l].ch] =
                         [st |-> "sent", val |-> NoticeOf(task[l].pid)]
                  /\ procs[task[l].pid].reaps = 1
                  /\ procs[task[l].pid].notices = 1)

\* C11 witness: the process was reaped, its entry is gone and the notice is
\* stored, while wait has never been polled
C11_Witness ==
    /\ task[Caller].pid # 0
    /\ task[Caller].wait = "unpolled"
    /\ procs[task[Caller].pid].st = "reaped"
    /\ DOMAIN table = {}
    /\ chan[task[Caller].ch].st = "sent"


\* C12: the monitor never terminates a process for a caller.  A step in
\* which a call is given up (its wait future dropped, its timer fired)
\* changes neither the process table nor the reaper's table; the entry of
\* a process stays until the process has exited and the reaper took it,
\* also when its caller is gone; and only then is it removed.
C12_NoAutoKill ==
    /\ [][\A l \in Tasks :
            (task[l].pc # "cancelled" /\ task'[l].pc = "cancelled") =>
                procs' = procs /\ table' = table]_vars
    /\ [](\A pid \in Monitored :
              /\ procs[pid].st \in {"running", "exited"} =>
                     pid \in DOMAIN table
              /\ procs[pid].st = "reaped" =>
                     pid \notin DOMAIN table /\ procs[pid].reaps = 1)
    /\ [][\A pid \in Pids :
            (pid \in DOMAIN table /\ pid \notin DOMAIN table') =>
                procs[pid].st = "exited" /\ procs'[pid].st = "reaped"]_vars

\* C12 witness: the call was given up, its process is still running and
\* its entry is still in the table
C12_Witness ==
    /\ task[Caller].pc = "cancelled"
    /\ task[Caller].pid # 0
    /\ procs[task[Caller].pid].st = "running"
    /\ task[Caller].pid \in DOMAIN table
    /\ chan[task[Caller].rx].st = "rxdropped"


\* the sink of process q is fulfilled in this step
Fulfilled(q) == procs[q].notices = 0 /\ procs'[q].notices = 1

Resolved(l) == task[l].start = "done" /\ task[l].wait = "done"

\* C14: no call blocks another.  Once the process of a call has terminated
\* its output future and its wait future both resolve, whatever the other
\* calls' processes do (they may run for ever, their futures pending).
C14_NoBlocking ==
    \A l \in Tasks :
        (task[l].pid # 0 /\ procs[task[l].pid].st = "exited")
            ~> Resolved(l)

\* C14 witness: the call started last has both futures resolved while the
\* process of the first call is still running and its futures are pending
C14_Witness ==
    /\ Resolved(NumLaunch)
    /\ task[NumLaunch].pid > task[1].pid
    /\ task[1].pid # 0
    /\ procs[task[1].pid].st = "running"
    /\ task[1].start = "running" /\ task[1].wait = "pending"


\* the streams of process p are closed and the record holds every byte p
\* wrote to them (bytes sent to the descriptors of an I/O attachment are
\* the attachment's, not the record's)
HoldsAllBytes(record, p) ==
    /\ p.eof
    /\ p.cmd # WiredCommand =>
           /\ record.stdout = p.out
           /\ record.stderr = p.err

\* C15: capture finishes before the Completion Record is emitted.  When the
\* output future of a call has resolved, or wait_with_output has returned,
\* both streams of the process are at end-of-stream and the record holds
\* every byte the child wrote.
C15_CaptureBeforeRecord ==
    /\ \A l \in Tasks : task[l].start = "done" =>
           HoldsAllBytes(task[l].out, procs[task[l].pid])
    /\ SyncDone => HoldsAllBytes(Captured(procs[sync.pid]), procs[sync.pid])


\* the calls whose process was terminated by a signal
Signalled ==
    {l \in Spawned : procs[task[l].pid].status.kind = "signal"}

\* C16: a monitored child terminated by a signal.  The monitor neither
\* fails nor drops the notice: once reaped one notice was sent and a
\* resolved wait holds {pid, status} with the signal status as it is; the
\* Output carries the same unclassified status; and the facade returns the
\* command-failed error with that status.
C16_SignalReachesWaiter ==
    \A l \in Signalled :
        LET p == procs[task[l].pid] IN
        /\ task[l].wait # "failed"
        /\ lookupFailed = FALSE
        /\ p.st = "reaped" => p.notices = 1
        /\ task[l].wait = "done" => task[l].exit = Exit(task[l].pid, p.status)
        /\ task[l].start = "done" => task[l].out.status = p.status
        /\ task[l].pc = "returned" =>
               /\ task[l].result.kind = "CommandFailed"
               /\ task[l].result.status = p.status


\* this step is a start inserting the entry of the process it just spawned
StartInserts(l) ==
    /\ task[l].start = "init"
    /\ task'[l].start = "running"
    /\ task'[l].pid = Len(procs) + 1
    /\ task'[l].pid \notin DOMAIN table
    /\ table' = table @@ (task'[l].pid :> task[l].ch)

\* this step is the reaper removing the entry of the process it just reaped
ReaperRemoves(pid) ==
    /\ pid \in DOMAIN table
    /\ procs[pid].st = "exited"
    /\ procs'[pid].st = "reaped"
    /\ procs'[pid].reaps = 1
    /\ table' = [p \in DOMAIN table \ {pid} |-> table[p]]

\* C17: the reaper's table.  It maps a process id to one sink and no sink
\* is registered for two processes; every entry is of a process spawned by
\* start and not yet reaped, with the sink its start was given; the table
\* changes only by a start inserting one entry or the reaper removing one;
\* and a removed entry never comes back, so each is removed exactly once.
C17_TableInvariant ==
    /\ [](\A pid \in DOMAIN table :
              /\ pid \in Monitored
              /\ procs[pid].st \in {"running", "exited"}
              /\ procs[pid].reaps = 0
              /\ table[pid] = task[procs[pid].owner].ch)
    /\ [](\A p, q \in DOMAIN table : p # q => table[p] # table[q])
    /\ [][table' # table =>
             \/ \E l \in Tasks : StartInserts(l)
             \/ \E pid \in Pids : ReaperRemoves(pid)]_vars
    /\ [][\A pid \in Pids :
             pid \notin DOMAIN table => pid \notin DOMAIN table']_vars

\* C17 witness: an entry was inserted for every call, one has been removed
\* by the reaper and the other is still there
C17_Witness ==
    /\ Cardinality(Monitored) = NumLaunch
    /\ procs[1].st = "reaped" /\ 1 \notin DOMAIN table
    /\ NumLaunch \in DOMAIN table


\* the attachment of a call whose process p was spawned: wired before the
\* spawn, and released once the process is confirmed started, so before
\* the process is gone and on every return
IoHandled(io, p, returned) ==
    /\ io \in {"set", "closed"}
    /\ p.st # "running" => io = "closed"
    /\ returned => io = "closed"

\* C18: every verb given an I/O attachment (create, run, exec, in both
\* facades) wires it immediately before the spawn and releases it
\* immediately after the spawn succeeded, without waiting for the process
\* to exit, on every path where the spawn succeeded.
C18_IoAroundSpawn ==
    /\ (sync.io # "none" /\ sync.pid # 0) =>
           IoHandled(sync.io, procs[sync.pid], sync.pc = "returned")
    /\ \A l \in Tasks : (task[l].io # "none" /\ task[l].pid # 0) =>
           IoHandled(task[l].io, procs[task[l].pid], task[l].pc = "returned")


\* the call holds the spec file of its request, complete, and the
\* arguments that name it
FileReady(c) ==
    /\ c.file # None
    /\ c.file.content = to_string(c.req.res)
    /\ c.args = UpdateArgs(c.file.path, c.req.id)

\* the errors with which update returns before any launch
EarlyErrors ==
    {FilenameFailed, JsonDeserializationFailed, SpecFileCreationFailed}

\* C19: update, in both facades, writes the serialized resource spec to
\* its temporary file first and spawns afterwards, with the arguments
\* update --resources <path> <id>: whenever a spawn was attempted, and in
\* the step that creates the process, the file is there with the complete
\* content; and when the file name, the serialization or the write failed
\* the call returns that error with no process spawned.
C19_UpdateFileBeforeSpawn ==
    /\ [](sync.verb = "update" =>
              /\ sync.spawns > 0 => FileReady(sync)
              /\ sync.file = None =>
                     /\ sync.pc = "returned" /\ sync.result \in EarlyErrors
                     /\ sync.spawns = 0 /\ sync.pid = 0
                     /\ \A pid \in Pids : procs[pid].owner # SyncOwner)
    /\ [](\A l \in Tasks : task[l].verb = "update" =>
              /\ task[l].start # "init" => FileReady(task[l])
              /\ task[l].file = None =>
                     /\ task[l].pc = "returned"
                     /\ task[l].result \in EarlyErrors
                     /\ task[l].start = "init" /\ task[l].pid = 0
                     /\ \A pid \in Pids : procs[pid].owner # l)
    /\ [][Len(procs') > Len(procs) =>
             /\ sync'.verb = "update" /\ sync'.pid = Len(procs')
                    => FileReady(sync)
             /\ \A l \in Tasks :
                    task'[l].verb = "update" /\ task'[l].pid = Len(procs')
                        => FileReady(task[l])]_vars

\* C19 witness: the process of a concurrent update is running, its spec
\* file holding the serialized request
C19_Witness ==
    /\ task[Caller].verb = "update"
    /\ task[Caller].pid # 0
    /\ procs[task[Caller].pid].st = "running"
    /\ task[Caller].file =
           [path |-> "runc-process-b", content |-> to_string([memory |-> 1])]


\* C20: checkpoint and restore in both facades, events and exec in the
\* concurrent facade, return the not-implemented error naming the verb for
\* every argument value: the call has returned it without a spawn attempt,
\* a channel or a process of its own, and the step of the call changes
\* neither the processes nor the monitor's table nor its channels.
C20_NotImplemented ==
    /\ [](sync.verb \in ClientUnimplementedVerbs =>
              /\ sync.pc = "returned"
              /\ sync.result = Unimplemented(sync.verb)
              /\ sync.spawns = 0 /\ sync.waits = 0 /\ sync.pid = 0
              /\ \A pid \in Pids : procs[pid].owner # SyncOwner)
    /\ [](\A l \in Tasks : task[l].verb \in AsyncUnimplementedVerbs =>
              /\ task[l].pc = "returned"
              /\ task[l].result = Unimplemented(task[l].verb)
              /\ task[l].start = "init" /\ task[l].wait = "unpolled"
              /\ task[l].ch = 0 /\ task[l].pid = 0
              /\ \A pid \in Pids : procs[pid].owner # l)
    /\ [][(\/ sync'.verb \in ClientUnimplementedVerbs
              /\ sync.verb \notin ClientUnimplementedVerbs
           \/ \E l \in Tasks :
                  /\ task'[l].verb \in AsyncUnimplementedVerbs
                  /\ task[l].verb \notin AsyncUnimplementedVerbs)
              => UNCHANGED <<procs, table, chan, lookupFailed>>]_vars

\* C20 witness: an exec of the concurrent facade given an I/O attachment
\* has returned not-implemented
C20_Witness ==
    /\ task[Caller].verb = "exec"
    /\ task[Caller].req = [id |-> "c1", io |-> "given"]
    /\ task[Caller].result = Unimplemented("exec")
    /\ procs = <<>>


\* the tool printed the text null (whitespace around it allowed) on
\* stdout, nothing on stderr, and exited 0
PrintedNull(p) ==
    /\ p.status = Code(0)
    /\ trim(p.out) = null
    /\ p.err = <<>>

\* C21: list, ps and state return the empty collection, not an error,
\* when the tool exited 0 having printed the text null.
C21_NullIsEmpty ==
    /\ (/\ sync.pc = "returned" /\ sync.pid # 0
        /\ sync.verb \in {"list", "state"}
        /\ PrintedNull(procs[sync.pid]))
           => sync.ret = Decoded(<<>>)
    /\ \A l \in Tasks :
           (/\ task[l].pc = "returned" /\ task[l].pid # 0
            /\ task[l].verb \in {"list", "ps", "state"}
            /\ PrintedNull(procs[task[l].pid]))
               => task[l].ret = Decoded(<<>>)


\* the result names the process, its exit status and the text of both
\* captured streams
ReportsAll(result, pid) ==
    LET captured == Captured(procs[pid])
        stdout == from_utf8(captured.stdout)
        stderr == from_utf8(captured.stderr)
    IN  /\ "pid" \in DOMAIN result /\ result.pid = pid
        /\ result.status = procs[pid].status
        /\ IF result.kind = "Response"
           THEN result.output = stdout.s \o stderr.s
           ELSE result.stdout = stdout.s /\ result.stderr = stderr.s

\* C22: the result of a completed invocation, the success Response as
\* well as the command-failed error, carries the process id, the exit
\* status and the full text of both captured streams.
C22_BothOutcomesReportPid ==
    /\ (SyncDone /\ sync.result.kind \in {"Response", "CommandFailed"})
           => ReportsAll(sync.result, sync.pid)
    /\ \A l \in Tasks :
           (/\ AsyncDone(l) /\ task[l].kind = "launch"
            /\ task[l].result.kind \in {"Response", "CommandFailed"})
               => ReportsAll(task[l].result, task[l].pid)


\* C23: the timeout of the configuration (finite, so it elapses) is
\* applied to every command of the concurrent client: a call whose process
\* is still running does not stay pending for ever, it returns.
C23_TimeoutApplied ==
    \A l \in Tasks :
        (/\ task[l].pc = "join" /\ task[l].pid # 0
         /\ procs[task[l].pid].st = "running")
            ~> task[l].pc # "join"


SameBehaviour ==
    \/ /\ sync.pid = 0 /\ sync.spawns = 1
       /\ task[Caller].start = "failed"
    \/ /\ sync.pid # 0 /\ task[Caller].pid # 0
       /\ LET p == procs[sync.pid]
              q == procs[task[Caller].pid]
          IN  /\ p.cmd = q.cmd
              /\ p.status = q.status
              /\ p.out = q.out /\ p.err = q.err

\* the same result: the same kind, and the same status and text (each
\* Response naming its own process)
SameResult(a, b) ==
    /\ a.kind = b.kind
    /\ a.kind = "Response" => a.status = b.status /\ a.output = b.output
    /\ a.kind = "CommandFailed" => a = b

\* C25: for the same command behaviour and the same combined_output flag
\* Client::launch and AsyncClient::launch return the same result.
C25_SameContract ==
    (/\ sync.pc = "returned" /\ task[Caller].pc = "returned"
     /\ sync.combined = task[Caller].combined
     /\ SameBehaviour)
        => SameResult(sync.result, task[Caller].result)


\* C26: AsyncClient::launch always terminates (the runtime scheduling the
\* reaper and the futures fairly): a failed spawn makes the join resolve
\* at once, although no notice will ever be sent, and the call returns the
\* error; and after a successful spawn the call returns once the process
\* has terminated.
C26_LaunchTerminates ==
    /\ \A l \in Tasks :
           (/\ task[l].kind = "launch" /\ task[l].pc = "join"
            /\ task[l].start = "failed")
               ~> (task[l].pc = "returned" /\ task[l].result = InvalidCommand)
    /\ \A l \in Tasks :
           (/\ task[l].kind = "launch" /\ task[l].pc = "join"
            /\ task[l].pid # 0
            /\ procs[task[l].pid].st \in {"exited", "reaped"})
               ~> task[l].pc = "returned"
    /\ [](\A l \in Tasks :
              (/\ task[l].kind = "launch" /\ task[l].pc = "join"
               /\ task[l].start = "failed")
                  => ENABLED LaunchReturn(l))

\* C26 witness: a launch whose spawn failed has returned the error, its
\* wait never polled and no process made
C26_Witness ==
    /\ task[Caller].kind = "launch"
    /\ task[Caller].pc = "returned"
    /\ task[Caller].result = InvalidCommand
    /\ task[Caller].start = "failed"
    /\ task[Caller].wait = "unpolled"
    /\ procs = <<>>


\* C27: within one AsyncClient::launch the Output of start and the Exit of
\* wait describe the same process, under any number of concurrent
\* launches: the notice is the one of the call's own process, the Output
\* holds that process's status and captured streams, the two statuses are
\* equal, and the pid of the Response is the pid of that process.
C27_SameProcess ==
    \A l \in Tasks :
        /\ task[l].wait = "done" =>
               /\ task[l].pid # 0
               /\ task[l].exit = NoticeOf(task[l].pid)
        /\ task[l].start = "done" =>
               task[l].out = Captured(procs[task[l].pid])
        /\ JoinDone(task[l]) => task[l].exit.status = task[l].out.status
        /\ (task[l].pc = "returned" /\ task[l].result.kind = "Response") =>
               /\ task[l].result.pid = task[l].pid
               /\ task[l].result.status = procs[task[l].pid].status

\* C27 witness: two concurrent launches, the later call's process spawned
\* first; the first has returned the Response of its own process while the
\* other's process was killed
C27_Witness ==
    /\ task[1].pid = 2 /\ task[2].pid = 1
    /\ task[1].pc = "returned"
    /\ task[1].result = Response(2, Code(0), <<>>)
    /\ JoinDone(task[2])
    /\ task[2].exit = Exit(1, Signal(9))


\* C28: every verb given an I/O attachment (create, run, exec) spawns the
\* command the attachment was wired into: the process of such a call runs
\* the wired command, never a different, unwired one.
C28_SpawnsWiredCommand ==
    /\ (sync.io # "none" /\ sync.pid # 0) =>
           procs[sync.pid].cmd = WiredCommand
    /\ \A l \in Tasks : (task[l].io # "none" /\ task[l].pid # 0) =>
           procs[task[l].pid].cmd = WiredCommand


\* the Response of process pid for the flag combined: the pid, the status,
\* and the text of the captured stdout, followed by that of the captured
\* stderr only when combined
ResponseFor(pid, combined) ==
    LET captured == Captured(procs[pid])
        stdout == from_utf8(captured.stdout).s
        stderr == from_utf8(captured.stderr).s
    IN  Response(pid, procs[pid].status,
                 IF combined THEN stdout \o stderr ELSE stdout)

\* both captured streams of process pid are text
Decodable(pid) ==
    /\ from_utf8(Captured(procs[pid]).stdout).ok
    /\ from_utf8(Captured(procs[pid]).stderr).ok

\* C29: on exit status 0 the Response output is the captured stdout
\* followed by the captured stderr when the caller asked for combined
\* output and exactly the captured stdout when it did not; pid and status
\* are the process's in both cases.
C29_CombinedOrStdout ==
    /\ (/\ SyncDone /\ success(procs[sync.pid].status)
        /\ Decodable(sync.pid))
           => sync.result = ResponseFor(sync.pid, sync.combined)
    /\ \A l \in Tasks :
           (/\ AsyncDone(l) /\ task[l].kind = "launch"
            /\ success(procs[task[l].pid].status)
            /\ Decodable(task[l].pid))
               => task[l].result = ResponseFor(task[l].pid, task[l].combined)

\* C29 witness: both children wrote "a" to a captured stdout and "b" to a
\* captured stderr; the synchronous call, not combined, returned "a", the
\* concurrent one, combined, "ab"
C29_Witness ==
    /\ SyncDone /\ AsyncDone(Caller)
    /\ ~sync.combined /\ task[Caller].combined
    /\ Captured(procs[sync.pid]).stderr = <<98>>
    /\ sync.result = Response(sync.pid, Code(0), <<97>>)
    /\ task[Caller].result = Response(task[Caller].pid, Code(0), <<97, 98>>)


====
